---- MODULE Spec2Model ----
(***************************************************************************)
(* RAGForge: the per-title FAISS collection store (IndexManager), its     *)
(* embedder and the files it persists, as a state machine.                *)
(*                                                                         *)
(* Strings are sequences of one-character strings, so that strip(),       *)
(* lower() and the pathlib path join are computed, not assumed.  A score  *)
(* is an inner product scaled by 100 (100 = 1.0).                          *)
(***************************************************************************)
EXTENDS Integers, Sequences, FiniteSets, TLC

VARIABLES
    titles,       \* IndexManager.titles: normalized key -> metadata record
    titles_file,  \* storage/titles.json: [exists, data]
    disk,         \* files under storage/faiss: path -> content
    last,         \* the call that was made last and what it gave back
    names,        \* the titles the callers of this run use
    words,        \* the chunk and query words the callers of this run use
    threads,      \* the call each browser session's script thread is in
    faults,       \* history: how many I/O faults have struck so far
    calls,        \* history: how many calls the two sessions have begun
    embedder,     \* the Embedder class of this process: its instance and model
    audit         \* history: which of the watched keys a delete_title removed

vars ==
    <<titles, titles_file, disk, last, names, words, threads, faults, calls,
      embedder, audit>>

-----------------------------------------------------------------------------
(* Bounds of the model *)

\* longest persisted chunk list / index the model lets add_documents build
MaxLen == 2
\* longest chunk list handed to one add_documents call
MaxAdd == 2
\* largest k handed to search (the chat page's slider starts at 1)
MaxK == 2

\* most I/O faults in one run
MaxFaults == 1
\* most calls the two sessions begin in one run
MaxCalls == 3

\* What the callers of one run pass in: the titles typed on the upload page
\* and the chunk and query words.  "A " has the key of "a"; "./a" is a
\* relative name; " " is a blank text.
OddCallers ==
    { [names |-> { <<"a">>, <<"A", " ">> },      words |-> { <<"x">> }],
      [names |-> { <<"a">>, <<".", "/", "a">> }, words |-> { <<"x">> }] }
Callers ==
    { [names |-> { <<"a">>, <<"b">> }, words |-> { <<"x">>, <<"y">> }],
      [names |-> { <<"a">> },          words |-> { <<"x">>, <<"y">>, <<" ">> }] }
      \cup OddCallers
\* the callers of the runs in which I/O steps fail
FaultCallers ==
    { [names |-> { <<"a">>, <<"b">> }, words |-> { <<"x">> }],
      [names |-> { <<"a">> },          words |-> { <<"x">>, <<"y">> }],
      [names |-> { <<"a">> },          words |-> { <<"x">>, <<" ">> }],
      [names |-> { <<"a">>, <<".", "/", "a">> }, words |-> { <<"x">> }] }

\* the chunk lists one add_documents call may be handed
ChunkLists == UNION { [1..n -> words] : n \in 0..MaxAdd }

-----------------------------------------------------------------------------
(* Python str helpers *)

\* str.isspace() of one character
IsSpace(c) == c \in {" ", "\n"}

RECURSIVE lstrip(_)
lstrip(s) == IF s = <<>> THEN s
             ELSE IF IsSpace(Head(s)) THEN lstrip(Tail(s)) ELSE s

RECURSIVE rstrip(_)
rstrip(s) == IF s = <<>> THEN s
             ELSE IF IsSpace(s[Len(s)]) THEN rstrip(SubSeq(s, 1, Len(s) - 1)) ELSE s

\* str.strip()
strip(s) == rstrip(lstrip(s))

LowerChar(c) == IF c = "A" THEN "a" ELSE IF c = "B" THEN "b" ELSE c

\* str.lower()
lower(s) == [i \in 1..Len(s) |-> LowerChar(s[i])]

\* mutant: the key is trimmed but keeps its case
NormalizeKeepsCase(title) == strip(title)

\* normalized = title.strip().lower()
Normalize(title) == lower(strip(title))

-----------------------------------------------------------------------------
(* pathlib: self.faiss_dir / f"{normalized}.index"                          *)
(* A path under faiss_dir is the sequence of its components.  Joining a    *)
(* relative name parses it: it is split at "/" and empty and "."           *)
(* components are dropped.                                                  *)

RECURSIVE SplitParts(_, _)
SplitParts(s, cur) ==
    IF s = <<>> THEN <<cur>>
    ELSE IF Head(s) = "/" THEN <<cur>> \o SplitParts(Tail(s), <<>>)
    ELSE SplitParts(Tail(s), Append(cur, Head(s)))

KeepPart(p) == p # <<>> /\ p # <<".">>

PathJoin(name) == SelectSeq(SplitParts(name, <<>>), KeepPart)

IndexPath(normalized) == PathJoin(normalized \o <<".index">>)

ChunksPath(normalized) == PathJoin(normalized \o <<"_chunks.json">>)

\* faiss_dir has no subdirectories: a file can be created directly in it only
Creatable(path) == Len(path) = 1

-----------------------------------------------------------------------------
(* Embedder *)

\* get_sentence_embedding_dimension() of all-MiniLM-L6-v2
MiniLM == 384

\* the dimensions of the models _model_name may name: all-MiniLM-L6-v2 and
\* one of another width, such as all-mpnet-base-v2
ModelDims == {MiniLM, 768}

\* no Embedder() has been constructed in this process: _instance is None (0),
\* no object was made and no model was loaded.  dim is the dimension of the
\* model that _model_name names in this process.
NoEmbedder(dim) ==
    [instance |-> 0, made |-> 0, loads |-> 0, loaded |-> {}, dim |-> dim]

\* the first Embedder() has run to its end: one object, one model load
OneEmbedder(dim) ==
    [instance |-> 1, made |-> 1, loads |-> 1, loaded |-> {1}, dim |-> dim]

\* Embedder.embedding_dim: the dimension of the model, 384 without a model
embedding_dim ==
    IF embedder.instance \in embedder.loaded THEN embedder.dim ELSE MiniLM

\* SentenceTransformer.encode(.., normalize_embeddings=True): the unit vector of
\* a text, of the model's dimension.  The model is a black box; its tokenizer
\* splits at whitespace, so the vector is that of the text without
\* surrounding whitespace.
Encode(text) == [tok |-> strip(text), d |-> embedding_dim]

\* the inner product of two unit vectors, times 100
InnerProduct(u, v) == IF u = v THEN 100 ELSE 30

\* mutant: "if text", the test without strip()
NotEmpty(text) == text # <<>>

\* "if text.strip()"
NotBlank(text) == strip(text) # <<>>

\* the lists embed_texts hands to self._model.encode: none for an empty
\* list and when no text is left, else the one list of the stripped texts
\* that are left
EncodeBatches(texts) ==
    LET kept == SelectSeq(texts, NotBlank)
    IN  IF texts = <<>> \/ kept = <<>> THEN <<>>
        ELSE <<[i \in 1..Len(kept) |-> strip(kept[i])]>>

\* Embedder.embed_texts: blank texts are dropped, the rest stripped and
\* encoded; np.array([]) when nothing is encoded
embed_texts(texts) ==
    LET batches == EncodeBatches(texts)
    IN  IF batches = <<>> THEN <<>>
        ELSE [i \in 1..Len(batches[1]) |-> Encode(batches[1][i])]

\* Embedder.embed_query raises ValueError on an empty or blank query
QueryRejected(query) == query = <<>> \/ strip(query) = <<>>

embed_query(query) == Encode(query)

-----------------------------------------------------------------------------
(* faiss.IndexFlatIP and the two kinds of file *)

\* faiss.IndexFlatIP(dimension), as written by faiss.write_index
EmptyIndex == [kind |-> "faiss", d |-> embedding_dim, vecs |-> <<>>]

\* mutant: vectors of any dimension are taken
FitsAlways(index, vectors) == TRUE

\* "assert d == self.d" of faiss's index.add and index.search
Fits(index, vectors) == \A i \in 1..Len(vectors) : vectors[i].d = index.d

\* index.add(embeddings)
IndexAdd(index, embeddings) == [index EXCEPT !.vecs = @ \o embeddings]

\* json.dump(chunk list, f)
JsonFile(data) == [kind |-> "json", data |-> data]

\* mutant: the smallest inner product ranks first
RanksAscending(vecs, q, i, j) ==
    \/ InnerProduct(vecs[i], q) < InnerProduct(vecs[j], q)
    \/ InnerProduct(vecs[i], q) = InnerProduct(vecs[j], q) /\ i <= j

\* position i ranks before position j for query q
RanksBefore(vecs, q, i, j) ==
    \/ InnerProduct(vecs[i], q) > InnerProduct(vecs[j], q)
    \/ InnerProduct(vecs[i], q) = InnerProduct(vecs[j], q) /\ i <= j

\* index.search(query_embedding, k): k (distance, label) pairs, best first,
\* labels 0-based; when the index holds fewer than k vectors the rest is
\* padded with label -1 and the lowest float (here -1000)
RECURSIVE FaissSearch(_, _, _, _)
FaissSearch(vecs, q, k, taken) ==
    IF k <= 0 THEN <<>>
    ELSE LET cand == (1..Len(vecs)) \ taken
         IN  IF cand = {}
             THEN <<[dist |-> -1000, idx |-> -1]>> \o FaissSearch(vecs, q, k - 1, taken)
             ELSE LET best == CHOOSE i \in cand : \A j \in cand : RanksBefore(vecs, q, i, j)
                  IN  <<[dist |-> InnerProduct(vecs[best], q), idx |-> best - 1]>>
                      \o FaissSearch(vecs, q, k - 1, taken \cup {best})

\* Python list indexing with a 0-based or negative position
PyItem(list, idx) == IF idx >= 0 THEN list[idx + 1] ELSE list[Len(list) + idx + 1]

\* the "Safety check" of search: idx < len(all_chunks)
PassesCheck(all_chunks, idx) == idx < Len(all_chunks)

\* the result loop of search
RECURSIVE Results(_, _)
Results(all_chunks, hits) ==
    IF hits = <<>> THEN <<>>
    ELSE IF PassesCheck(all_chunks, Head(hits).idx)
         THEN <<[chunk |-> PyItem(all_chunks, Head(hits).idx), score |-> Head(hits).dist]>>
              \o Results(all_chunks, Tail(hits))
         ELSE Results(all_chunks, Tail(hits))

-----------------------------------------------------------------------------
(* Files and the registry mapping *)

Exists(d, path) == path \in DOMAIN d

\* open(path, 'w') + dump / faiss.write_index: the file is replaced
Write(d, path, content) ==
    [p \in DOMAIN d \cup {path} |-> IF p = path THEN content ELSE d[p]]

\* Path.unlink()
Unlink(d, path) == [p \in DOMAIN d \ {path} |-> d[p]]

EmptyMap == <<>>

\* self.titles[normalized] = entry
Put(t, key, entry) ==
    [k \in DOMAIN t \cup {key} |-> IF k = key THEN entry ELSE t[k]]

\* mutant: the entry is left in the mapping
RemoveNothing(t, key) == t

\* del self.titles[normalized]
Remove(t, key) == [k \in DOMAIN t \ {key} |-> t[k]]

\* "normalized in self.titles"
TitleExists(normalized) == normalized \in DOMAIN titles

\* _save_titles: the whole mapping is written; an exception is logged and
\* swallowed, the file then stays as it was
SaveTitles(t, failing) ==
    IF failing THEN titles_file ELSE [exists |-> TRUE, data |-> t]

\* _load_titles
LoadTitles == IF titles_file.exists THEN titles_file.data ELSE EmptyMap

Return(v) == [kind |-> "return", val |-> v]

Raise(e) == [kind |-> "raise", exc |-> e]

\* what a call leaves behind: the state, what it gave back, the injected
\* I/O fault it ran into ("none" when it met none)
Outcome(t, tf, d, ret, hit) ==
    [titles |-> t, titles_file |-> tf, disk |-> d, ret |-> ret, hit |-> hit]

-----------------------------------------------------------------------------
(* IndexManager: what each call does to the state and gives back.          *)
(* fault names the I/O step that fails in this call, "none" for no fault.  *)
(* A failing write or removal fails when the file is opened and leaves it  *)
(* as it was.                                                               *)

CreateFaults == {"none", "write_index", "write_chunks", "save_titles"}
AddFaults == {"none", "embed", "write_index", "write_chunks", "save_titles"}
DeleteFaults == {"none", "unlink_index", "unlink_chunks", "save_titles"}

\* the registry entry create_title stores
NewEntry(display_title, index_path, chunks_path) ==
    [display_name |-> display_title, index_file |-> index_path,
     chunks_file |-> chunks_path, chunk_count |-> 0]

\* mutant: the entry is put into the mapping before the files are written
CreateTitleRegistersFirst(title, fault) ==
    LET normalized == Normalize(title)
        index_path == IndexPath(normalized)
        chunks_path == ChunksPath(normalized)
        disk1 == Write(disk, index_path, EmptyIndex)
        disk2 == Write(disk1, chunks_path, JsonFile(<<>>))
        titles2 == Put(titles, normalized,
                       NewEntry(strip(title), index_path, chunks_path))
    IN  IF TitleExists(normalized)
        THEN Outcome(titles, titles_file, disk, Return(FALSE), "none")
        ELSE IF ~Creatable(index_path)
        THEN Outcome(titles2, titles_file, disk, Raise("RuntimeError"), "none")
        ELSE IF fault = "write_index"
        THEN Outcome(titles2, titles_file, disk, Raise("RuntimeError"), fault)
        ELSE IF fault = "write_chunks"
        THEN Outcome(titles2, titles_file, disk1, Raise("OSError"), fault)
        ELSE Outcome(titles2, SaveTitles(titles2, fault = "save_titles"), disk2,
                     Return(TRUE),
                     IF fault = "save_titles" THEN fault ELSE "none")

\* mutant: a chunk list that is already there is left as it is
CreateTitleKeepsFiles(title, fault) ==
    LET normalized == Normalize(title)
        index_path == IndexPath(normalized)
        chunks_path == ChunksPath(normalized)
        disk1 == Write(disk, index_path, EmptyIndex)
        disk2 == IF Exists(disk, chunks_path) THEN disk1
                 ELSE Write(disk1, chunks_path, JsonFile(<<>>))
        titles2 == Put(titles, normalized,
                       NewEntry(strip(title), index_path, chunks_path))
    IN  IF TitleExists(normalized)
        THEN Outcome(titles, titles_file, disk, Return(FALSE), "none")
        ELSE IF ~Creatable(index_path)
        THEN Outcome(titles, titles_file, disk, Raise("RuntimeError"), "none")
        ELSE IF fault = "write_index"
        THEN Outcome(titles, titles_file, disk, Raise("RuntimeError"), fault)
        ELSE IF fault = "write_chunks"
        THEN Outcome(titles, titles_file, disk1, Raise("OSError"), fault)
        ELSE Outcome(titles2, SaveTitles(titles2, fault = "save_titles"), disk2,
                     Return(TRUE),
                     IF fault = "save_titles" THEN fault ELSE "none")

CreateTitleOutcome(title, fault) ==
    LET normalized == Normalize(title)
        display_title == strip(title)
        index_path == IndexPath(normalized)
        chunks_path == ChunksPath(normalized)
        disk1 == Write(disk, index_path, EmptyIndex)
        disk2 == Write(disk1, chunks_path, JsonFile(<<>>))
        titles2 == Put(titles, normalized,
                       NewEntry(display_title, index_path, chunks_path))
    IN  IF TitleExists(normalized)
        THEN Outcome(titles, titles_file, disk, Return(FALSE), "none")
        ELSE IF ~Creatable(index_path)
        THEN Outcome(titles, titles_file, disk, Raise("RuntimeError"), "none")
        ELSE IF fault = "write_index"
        THEN Outcome(titles, titles_file, disk, Raise("RuntimeError"), fault)
        ELSE IF fault = "write_chunks"
        THEN Outcome(titles, titles_file, disk1, Raise("OSError"), fault)
        ELSE Outcome(titles2, SaveTitles(titles2, fault = "save_titles"), disk2,
                     Return(TRUE),
                     IF fault = "save_titles" THEN fault ELSE "none")

\* mutant: no return when nothing was embedded; the files are written and
\* the number of vectors added is given back
AddLoadedCountsVectors(normalized, chunks, fault, chunks_path, index_path) ==
    LET extended == disk[chunks_path].data \o chunks
        index2 == IndexAdd(disk[index_path], embed_texts(chunks))
        disk2 == Write(Write(disk, index_path, index2), chunks_path, JsonFile(extended))
        titles2 == [titles EXCEPT ![normalized].chunk_count = Len(extended)]
    IN  Outcome(titles2, SaveTitles(titles2, fault = "save_titles"), disk2,
                Return(Len(embed_texts(chunks))),
                IF fault = "save_titles" THEN fault ELSE "none")

\* the part of add_documents after both files are loaded
AddLoaded(normalized, chunks, fault, chunks_path, index_path) ==
    LET existing_chunks == disk[chunks_path].data
        index == disk[index_path]
        embeddings == embed_texts(chunks)
        index2 == IndexAdd(index, embeddings)
        extended == existing_chunks \o chunks
        disk1 == Write(disk, index_path, index2)
        disk2 == Write(disk1, chunks_path, JsonFile(extended))
        titles2 == [titles EXCEPT ![normalized].chunk_count = Len(extended)]
    IN  IF fault = "embed"
        THEN Outcome(titles, titles_file, disk, Raise("RuntimeError"), fault)
        ELSE IF Len(embeddings) = 0
        THEN Outcome(titles, titles_file, disk, Return(0), "none")
        ELSE IF ~Fits(index, embeddings)
        THEN Outcome(titles, titles_file, disk, Raise("AssertionError"), "none")
        ELSE IF fault = "write_index"
        THEN Outcome(titles, titles_file, disk, Raise("RuntimeError"), fault)
        ELSE IF fault = "write_chunks"
        THEN Outcome(titles, titles_file, disk1, Raise("OSError"), fault)
        ELSE Outcome(titles2, SaveTitles(titles2, fault = "save_titles"), disk2,
                     Return(Len(chunks)),
                     IF fault = "save_titles" THEN fault ELSE "none")

\* the part of add_documents that loads the two files of a registered key
AddRegistered(normalized, chunks, fault) ==
    LET chunks_path == titles[normalized].chunks_file
        index_path == titles[normalized].index_file
    IN  IF ~Exists(disk, chunks_path)
        THEN Outcome(titles, titles_file, disk, Raise("FileNotFoundError"), "none")
        ELSE IF ~Exists(disk, index_path)
        THEN Outcome(titles, titles_file, disk, Raise("RuntimeError"), "none")
        ELSE AddLoaded(normalized, chunks, fault, chunks_path, index_path)

\* mutant: the empty-list check made before the title is looked up
AddDocumentsEmptyFirst(title, chunks, fault) ==
    IF chunks = <<>>
    THEN Outcome(titles, titles_file, disk, Return(0), "none")
    ELSE IF ~TitleExists(Normalize(title))
    THEN Outcome(titles, titles_file, disk, Raise("ValueError: does not exist"), "none")
    ELSE AddRegistered(Normalize(title), chunks, fault)

AddDocumentsOutcome(title, chunks, fault) ==
    LET normalized == Normalize(title)
    IN  IF ~TitleExists(normalized)
        THEN Outcome(titles, titles_file, disk, Raise("ValueError: does not exist"), "none")
        ELSE IF chunks = <<>>
        THEN Outcome(titles, titles_file, disk, Return(0), "none")
        ELSE AddRegistered(normalized, chunks, fault)

\* the part of search after the chunk list is loaded and found non-empty
SearchLoaded(all_chunks, index_path, query, k) ==
    IF ~Exists(disk, index_path) THEN Raise("RuntimeError")
    ELSE IF QueryRejected(query) THEN Raise("ValueError: query cannot be empty")
    ELSE LET index == disk[index_path]
             query_embedding == embed_query(query)
             k2 == IF k < Len(all_chunks) THEN k ELSE Len(all_chunks)
         IN  IF ~Fits(index, <<query_embedding>>) THEN Raise("AssertionError")
             ELSE Return(Results(all_chunks,
                                 FaissSearch(index.vecs, query_embedding, k2, {})))

\* what search(title, query, k) gives back in the current state
SearchReturn(title, query, k) ==
    LET normalized == Normalize(title)
    IN  IF ~TitleExists(normalized) THEN Raise("ValueError: does not exist")
        ELSE LET chunks_path == titles[normalized].chunks_file
             IN  IF ~Exists(disk, chunks_path) THEN Raise("FileNotFoundError")
                 ELSE IF disk[chunks_path].data = <<>> THEN Return(<<>>)
                 ELSE SearchLoaded(disk[chunks_path].data,
                                   titles[normalized].index_file, query, k)

\* get_title_info: self.titles.get(normalized); None is the empty sequence
GetTitleInfoReturn(title) ==
    LET normalized == Normalize(title)
    IN  Return(IF TitleExists(normalized) THEN <<titles[normalized]>> ELSE <<>>)

DeleteTitleOutcome(title, fault) ==
    LET normalized == Normalize(title)
    IN  IF ~TitleExists(normalized)
        THEN Outcome(titles, titles_file, disk, Return(FALSE), "none")
        ELSE LET index_path == titles[normalized].index_file
                 chunks_path == titles[normalized].chunks_file
                 disk1 == IF Exists(disk, index_path) THEN Unlink(disk, index_path) ELSE disk
                 disk2 == IF Exists(disk1, chunks_path) THEN Unlink(disk1, chunks_path) ELSE disk1
                 titles2 == Remove(titles, normalized)
             IN  IF fault = "unlink_index" /\ Exists(disk, index_path)
                 THEN Outcome(titles, titles_file, disk, Return(FALSE), fault)
                 ELSE IF fault = "unlink_chunks" /\ Exists(disk1, chunks_path)
                 THEN Outcome(titles, titles_file, disk1, Return(FALSE), fault)
                 ELSE Outcome(titles2, SaveTitles(titles2, fault = "save_titles"), disk2,
                              Return(TRUE),
                              IF fault = "save_titles" THEN fault ELSE "none")

\* get_all_titles: the display names of the registered titles
get_all_titles == { titles[key].display_name : key \in DOMAIN titles }

-----------------------------------------------------------------------------
(* The chat page: retrieval over the selected titles *)

\* what the multiselect gives: one or more registered display names, each once
Selections ==
    { selected \in UNION { [1..n -> get_all_titles] : n \in 1..Cardinality(get_all_titles) } :
        \A i, j \in 1..Len(selected) : selected[i] = selected[j] => i = j }

\* the dicts the loop appends for one title
Tagged(title, results) ==
    [i \in 1..Len(results) |->
        [title |-> title, chunk |-> results[i].chunk, score |-> results[i].score]]

\* how often search(title, ..) calls self.embedder.embed_query: once when it
\* gets as far as line 191, that is when the title is registered, its chunk
\* list loads and is not empty, and its index loads
EmbedQueryCalls(title) ==
    LET normalized == Normalize(title)
    IN  IF /\ TitleExists(normalized)
           /\ Exists(disk, titles[normalized].chunks_file)
           /\ disk[titles[normalized].chunks_file].data # <<>>
           /\ Exists(disk, titles[normalized].index_file)
        THEN 1 ELSE 0

\* mutant: the loop stops at the first title whose search raises
RECURSIVE GatherAborting(_, _, _)
GatherAborting(selected_titles, prompt, k_chunks) ==
    IF selected_titles = <<>>
    THEN [all_context |-> <<>>, warnings |-> <<>>, embeds |-> 0]
    ELSE LET title == Head(selected_titles)
             results == SearchReturn(title, prompt, k_chunks)
             rest == GatherAborting(Tail(selected_titles), prompt, k_chunks)
         IN  IF results.kind = "return"
             THEN [all_context |-> Tagged(title, results.val) \o rest.all_context,
                   warnings |-> rest.warnings,
                   embeds |-> EmbedQueryCalls(title) + rest.embeds]
             ELSE [all_context |-> <<>>, warnings |-> <<title>>,
                   embeds |-> EmbedQueryCalls(title)]

\* the loop over selected_titles: the results of each search are appended,
\* an exception becomes a warning for that title
RECURSIVE Gather(_, _, _)
Gather(selected_titles, prompt, k_chunks) ==
    IF selected_titles = <<>>
    THEN [all_context |-> <<>>, warnings |-> <<>>, embeds |-> 0]
    ELSE LET title == Head(selected_titles)
             results == SearchReturn(title, prompt, k_chunks)
             rest == Gather(Tail(selected_titles), prompt, k_chunks)
         IN  IF results.kind = "return"
             THEN [all_context |-> Tagged(title, results.val) \o rest.all_context,
                   warnings |-> rest.warnings,
                   embeds |-> EmbedQueryCalls(title) + rest.embeds]
             ELSE [all_context |-> rest.all_context,
                   warnings |-> <<title>> \o rest.warnings,
                   embeds |-> EmbedQueryCalls(title) + rest.embeds]

\* where list.sort(reverse=True) puts an item that stood before the sorted
\* rest: ahead of the first item that does not score higher
RECURSIVE InsertByScore(_, _)
InsertByScore(item, sorted) ==
    IF sorted = <<>> THEN <<item>>
    ELSE IF Head(sorted).score <= item.score THEN <<item>> \o sorted
    ELSE <<Head(sorted)>> \o InsertByScore(item, Tail(sorted))

\* all_context.sort(key=lambda x: x["score"], reverse=True): stable
RECURSIVE SortByScore(_)
SortByScore(all_context) ==
    IF all_context = <<>> THEN <<>>
    ELSE InsertByScore(Head(all_context), SortByScore(Tail(all_context)))

\* mutant: the slice is taken without sorting
TopUnsorted(all_context, k_chunks) ==
    SubSeq(all_context, 1,
           IF k_chunks < Len(all_context) THEN k_chunks ELSE Len(all_context))

\* top_context = all_context[:k_chunks], after the sort
TopContext(all_context, k_chunks) ==
    SubSeq(SortByScore(all_context), 1,
           IF k_chunks < Len(all_context) THEN k_chunks ELSE Len(all_context))

\* what the retrieval step of one chat turn ends with: the context, the
\* warnings shown, and how often the query was embedded on the way
RetrieveReturn(selected_titles, prompt, k_chunks) ==
    LET gathered == Gather(selected_titles, prompt, k_chunks)
    IN  Return([top_context |-> TopContext(gathered.all_context, k_chunks),
                warnings |-> gathered.warnings,
                embeds |-> gathered.embeds])

-----------------------------------------------------------------------------
(* The state machine: one action per call *)

Call(op, title, chunks, query, k, ret) ==
    [op |-> op, title |-> title, chunks |-> chunks, query |-> query, k |-> k,
     ret |-> ret]

\* the script threads of two browser sessions; st.cache_resource hands both
\* the same IndexManager
Threads == {"s1", "s2"}

\* the audit of a run that watches the given keys: no delete_title has
\* removed one of them yet, none that held chunks
Watching(keys) == [keys |-> keys, deleted |-> {}, held |-> {}]

\* a thread that is in no call: pc is the step it takes next, the other
\* fields are the arguments and local variables of its call; id numbers the
\* call and during holds the calls that were in progress when it began
Idle ==
    [pc |-> "done", op |-> "none", title |-> <<>>, chunks |-> <<>>,
     query |-> <<>>, k |-> 0, existing_chunks |-> <<>>, index |-> EmptyIndex,
     buf |-> EmptyMap, ret |-> Return(TRUE), id |-> 0, during |-> {},
     self |-> 0]

\* a fresh storage root: IndexManager.__init__ made faiss_dir, found no
\* titles.json and loaded the empty mapping
Fresh ==
    /\ embedder = OneEmbedder(MiniLM)
    /\ titles = EmptyMap
    /\ titles_file = [exists |-> FALSE, data |-> EmptyMap]
    /\ disk = EmptyMap
    /\ last = Call("init", <<>>, <<>>, <<>>, 0, Return(TRUE))
    /\ threads = [t \in Threads |-> Idle]
    /\ faults = 0
    /\ calls = 0

Init ==
    /\ Fresh
    /\ audit = Watching({})
    /\ \E caller \in Callers :
        names = caller.names /\ words = caller.words

InitIO ==
    /\ Fresh
    /\ audit = Watching({})
    /\ \E caller \in FaultCallers :
        names = caller.names /\ words = caller.words

\* an injected fault counts against the run's budget
Affordable(fault) == fault # "none" => faults < MaxFaults

Struck(fault) ==
    /\ faults' = IF fault = "none" THEN faults ELSE faults + 1
    /\ names' = names
    /\ words' = words
    /\ threads' = threads
    /\ calls' = calls
    /\ embedder' = embedder

\* the audit after a call on key gave back ret: a delete_title of a watched
\* key that returned True is noted
Noted(op, key, ret) ==
    IF op = "delete_title" /\ key \in audit.keys /\ ret = Return(TRUE)
    THEN [audit EXCEPT !.deleted = @ \cup {key},
                       !.held = IF titles[key].chunk_count > 0
                                THEN @ \cup {key} ELSE @]
    ELSE audit

\* the call's outcome becomes the state
Becomes(r, call) ==
    /\ titles' = r.titles
    /\ titles_file' = r.titles_file
    /\ disk' = r.disk
    /\ last' = call
    /\ audit' = Noted(call.op, Normalize(call.title), r.ret)

create_title(title, fault) ==
    /\ Affordable(fault)
    /\ \E r \in {CreateTitleOutcome(title, fault)} :
        /\ r.hit = fault
        /\ Struck(fault)
        /\ Becomes(r, Call("create_title", title, <<>>, <<>>, 0, r.ret))

\* the lists the model lets grow stay within MaxLen
WithinBounds(title, chunks) ==
    LET normalized == Normalize(title)
    IN  TitleExists(normalized) =>
          /\ Exists(disk, titles[normalized].chunks_file) =>
                Len(disk[titles[normalized].chunks_file].data) + Len(chunks) <= MaxLen
          /\ Exists(disk, titles[normalized].index_file) =>
                Len(disk[titles[normalized].index_file].vecs) + Len(chunks) <= MaxLen

add_documents(title, chunks, fault) ==
    /\ Affordable(fault)
    /\ WithinBounds(title, chunks)
    /\ \E r \in {AddDocumentsOutcome(title, chunks, fault)} :
        /\ r.hit = fault
        /\ Struck(fault)
        /\ Becomes(r, Call("add_documents", title, chunks, <<>>, 0, r.ret))

search(title, query, k) ==
    /\ last' = Call("search", title, <<>>, query, k, SearchReturn(title, query, k))
    /\ UNCHANGED <<titles, titles_file, disk, names, words, threads, faults, calls,
                 embedder, audit>>

get_title_info(title) ==
    /\ last' = Call("get_title_info", title, <<>>, <<>>, 0, GetTitleInfoReturn(title))
    /\ UNCHANGED <<titles, titles_file, disk, names, words, threads, faults, calls,
                 embedder, audit>>

\* one chat turn's retrieval over the selected titles
retrieve(selected_titles, prompt, k_chunks) ==
    /\ last' = Call("retrieve", selected_titles, <<>>, prompt, k_chunks,
                    RetrieveReturn(selected_titles, prompt, k_chunks))
    /\ UNCHANGED <<titles, titles_file, disk, names, words, threads, faults, calls,
                 embedder, audit>>

delete_title(title, fault) ==
    /\ Affordable(fault)
    /\ \E r \in {DeleteTitleOutcome(title, fault)} :
        /\ r.hit = fault
        /\ Struck(fault)
        /\ Becomes(r, Call("delete_title", title, <<>>, <<>>, 0, r.ret))

\* the process ends and a new IndexManager is constructed on the same storage
Restart ==
    /\ titles' = LoadTitles
    /\ last' = Call("init", <<>>, <<>>, <<>>, 0, Return(TRUE))
    /\ UNCHANGED <<titles_file, disk, names, words, threads, faults, calls,
                 embedder, audit>>

\* runs in which no I/O step fails
Next ==
    \/ \E title \in names : create_title(title, "none")
    \/ \E title \in names, chunks \in ChunkLists : add_documents(title, chunks, "none")
    \/ \E title \in names, query \in words, k \in 1..MaxK : search(title, query, k)
    \/ \E title \in names : get_title_info(title)
    \/ \E title \in names : delete_title(title, "none")
    \/ Restart

Spec == Init /\ [][Next]_vars

\* runs in which up to MaxFaults I/O steps fail
NextIO ==
    \/ \E title \in names, fault \in CreateFaults : create_title(title, fault)
    \/ \E title \in names, chunks \in ChunkLists, fault \in AddFaults :
          add_documents(title, chunks, fault)
    \/ \E title \in names, query \in words, k \in 1..MaxK : search(title, query, k)
    \/ \E title \in names : get_title_info(title)
    \/ \E title \in names, fault \in DeleteFaults : delete_title(title, fault)
    \/ Restart

SpecIO == InitIO /\ [][NextIO]_vars

\* the callers of the runs with chat turns
ChatCallers ==
    { [names |-> { <<"a">>, <<"b">> }, words |-> { <<"x">>, <<"y">> }] }

InitChat ==
    /\ Fresh
    /\ audit = Watching({})
    /\ \E caller \in ChatCallers :
        names = caller.names /\ words = caller.words

\* runs of the upload page and the chat page in which no I/O step fails
NextChat ==
    \/ \E title \in names : create_title(title, "none")
    \/ \E title \in names, chunks \in ChunkLists : add_documents(title, chunks, "none")
    \/ \E title \in names : delete_title(title, "none")
    \/ \E selected_titles \in Selections, prompt \in words, k_chunks \in 1..MaxK :
          retrieve(selected_titles, prompt, k_chunks)

SpecChat == InitChat /\ [][NextChat]_vars

\* the callers of the runs with chat turns and I/O faults
ChatFaultCallers ==
    { [names |-> { <<"a">>, <<"b">> }, words |-> { <<"x">> }] }

InitChatIO ==
    /\ Fresh
    /\ audit = Watching({})
    /\ \E caller \in ChatFaultCallers :
        names = caller.names /\ words = caller.words

\* runs of the upload page and the chat page in which up to MaxFaults I/O
\* steps fail
NextChatIO ==
    \/ \E title \in names, fault \in CreateFaults : create_title(title, fault)
    \/ \E title \in names, chunks \in ChunkLists, fault \in AddFaults :
          add_documents(title, chunks, fault)
    \/ \E title \in names, fault \in DeleteFaults : delete_title(title, fault)
    \/ \E selected_titles \in Selections, prompt \in words, k_chunks \in 1..MaxK :
          retrieve(selected_titles, prompt, k_chunks)

SpecChatIO == InitChatIO /\ [][NextChatIO]_vars

\* the callers of the runs that follow what becomes of deleted collections
AuditCallers ==
    { [names |-> { <<"a">>, <<"b">> },          words |-> { <<"x">> }],
      [names |-> { <<"a">> },                   words |-> { <<"x">>, <<"y">> }],
      [names |-> { <<"a">>, <<".", "/", "a">> }, words |-> { <<"x">> }] }

InitAudit ==
    /\ Fresh
    /\ \E caller \in AuditCallers :
        /\ names = caller.names
        /\ words = caller.words
        /\ audit = Watching({ Normalize(title) : title \in caller.names })

\* runs without I/O faults in which the deletes are noted
SpecAudit == InitAudit /\ [][Next]_vars

\* the callers of the runs in which the model is changed between processes
ModelCallers ==
    { [names |-> { <<"a">>, <<"b">> }, words |-> { <<"x">>, <<" ">> }] }

InitModel ==
    /\ Fresh
    /\ audit = Watching({})
    /\ \E caller \in ModelCallers :
        names = caller.names /\ words = caller.words

\* the process ends and a new one, whose _model_name names a model of
\* dimension dim, constructs its Embedder and its IndexManager on the same
\* storage
RestartWith(dim) ==
    /\ titles' = LoadTitles
    /\ embedder' = OneEmbedder(dim)
    /\ last' = Call("init", <<>>, <<>>, <<>>, 0, Return(TRUE))
    /\ UNCHANGED <<titles_file, disk, names, words, threads, faults, calls, audit>>

\* runs over several processes whose embedding models differ
NextModel ==
    \/ \E title \in names : create_title(title, "none")
    \/ \E title \in names, chunks \in ChunkLists : add_documents(title, chunks, "none")
    \/ \E title \in names, query \in words, k \in 1..MaxK : search(title, query, k)
    \/ \E title \in names : delete_title(title, "none")
    \/ \E dim \in ModelDims : RestartWith(dim)

SpecModel == InitModel /\ [][NextModel]_vars

-----------------------------------------------------------------------------
(* Two sessions on one IndexManager.  The code takes no lock, so the calls *)
(* of the two script threads interleave between any two of their          *)
(* statements; a step here is the stretch of a call up to its next read   *)
(* or write of the shared mapping or of a file.                           *)

\* the callers of the runs with two sessions
SessionCallers ==
    { [names |-> { <<"a">>, <<"b">> }, words |-> { <<"x">> }],
      [names |-> { <<"a">> },          words |-> { <<"x">>, <<"y">> }] }

InitMT ==
    /\ Fresh
    /\ audit = Watching({})
    /\ \E caller \in SessionCallers :
        names = caller.names /\ words = caller.words

\* thread t goes on with its call
Goes(t, call) == threads' = [threads EXCEPT ![t] = call]

\* thread t's call ends and gives back ret
Ends(t, call, ret) ==
    threads' = [threads EXCEPT ![t] =
                   [call EXCEPT !.pc = "done", !.ret = ret,
                                !.index = EmptyIndex, !.buf = EmptyMap]]

\* thread t begins a call
Begins(t, op, title) ==
    [Idle EXCEPT !.op = op, !.title = title, !.id = calls + 1,
                 !.during = {threads[u].id :
                                u \in {v \in Threads \ {t} : threads[v].pc # "done"}}]

\* add_documents, lines 119-130: the checks and the load of the chunk list
add_load_chunks(t, title, chunks) ==
    /\ threads[t].pc = "done"
    /\ calls < MaxCalls
    /\ calls' = calls + 1
    /\ WithinBounds(title, chunks)
    /\ LET normalized == Normalize(title)
           call == [Begins(t, "add_documents", title) EXCEPT !.chunks = chunks]
       IN  IF ~TitleExists(normalized)
           THEN Ends(t, call, Raise("ValueError: does not exist"))
           ELSE IF chunks = <<>>
           THEN Ends(t, call, Return(0))
           ELSE IF ~Exists(disk, titles[normalized].chunks_file)
           THEN Ends(t, call, Raise("FileNotFoundError"))
           ELSE Goes(t, [call EXCEPT
                           !.pc = "add_load_index",
                           !.existing_chunks = disk[titles[normalized].chunks_file].data])
    /\ UNCHANGED <<titles, titles_file, disk, last, names, words, faults,
                 embedder, audit>>

\* add_documents, lines 133-134: the load of the index
add_load_index(t) ==
    /\ threads[t].pc = "add_load_index"
    /\ LET call == threads[t]
           normalized == Normalize(call.title)
       IN  IF ~TitleExists(normalized)
           THEN Ends(t, call, Raise("KeyError"))
           ELSE IF ~Exists(disk, titles[normalized].index_file)
           THEN Ends(t, call, Raise("RuntimeError"))
           ELSE Goes(t, [call EXCEPT !.pc = "add_write_index",
                                     !.index = disk[titles[normalized].index_file]])
    /\ UNCHANGED <<titles, titles_file, disk, last, names, words, faults, calls,
                 embedder, audit>>

\* add_documents, lines 137-149: embed, index.add, extend, faiss.write_index
add_write_index(t) ==
    /\ threads[t].pc = "add_write_index"
    /\ LET call == threads[t]
           embeddings == embed_texts(call.chunks)
       IN  IF Len(embeddings) = 0
           THEN /\ Ends(t, call, Return(0))
                /\ disk' = disk
           ELSE IF ~Fits(call.index, embeddings)
           THEN /\ Ends(t, call, Raise("AssertionError"))
                /\ disk' = disk
           ELSE /\ Goes(t, [call EXCEPT !.pc = "add_write_chunks",
                                        !.index = IndexAdd(call.index, embeddings)])
                /\ disk' = Write(disk, IndexPath(Normalize(call.title)),
                                 IndexAdd(call.index, embeddings))
    /\ UNCHANGED <<titles, titles_file, last, names, words, faults, calls,
                 embedder, audit>>

\* add_documents, lines 151-152: the dump of the extended chunk list
add_write_chunks(t) ==
    /\ threads[t].pc = "add_write_chunks"
    /\ LET call == threads[t]
       IN  /\ disk' = Write(disk, ChunksPath(Normalize(call.title)),
                            JsonFile(call.existing_chunks \o call.chunks))
           /\ Goes(t, [call EXCEPT !.pc = "add_update_count"])
    /\ UNCHANGED <<titles, titles_file, last, names, words, faults, calls,
                 embedder, audit>>

\* add_documents, line 155: self.titles[normalized]["chunk_count"] = ...
add_update_count(t) ==
    /\ threads[t].pc = "add_update_count"
    /\ LET call == threads[t]
           normalized == Normalize(call.title)
       IN  IF ~TitleExists(normalized)
           THEN /\ Ends(t, call, Raise("KeyError"))
                /\ titles' = titles
           ELSE /\ titles' = [titles EXCEPT ![normalized].chunk_count =
                                 Len(call.existing_chunks \o call.chunks)]
                /\ Goes(t, [call EXCEPT !.pc = "save_dump"])
    /\ UNCHANGED <<titles_file, disk, last, names, words, faults, calls,
                 embedder, audit>>

\* _save_titles, lines 57-58: json.dump serializes the mapping as it is now
\* into the buffer of the file object
save_dump(t) ==
    /\ threads[t].pc = "save_dump"
    /\ Goes(t, [threads[t] EXCEPT !.pc = "save_close", !.buf = titles])
    /\ UNCHANGED <<titles, titles_file, disk, last, names, words, faults, calls,
                 embedder, audit>>

\* what a call gives back once the registry is saved
Success(call) ==
    IF call.op = "add_documents" THEN Return(Len(call.chunks)) ELSE Return(TRUE)

\* _save_titles, line 57: leaving the with block flushes the buffer to
\* titles.json; then the call returns
save_close(t) ==
    /\ threads[t].pc = "save_close"
    /\ titles_file' = [exists |-> TRUE, data |-> threads[t].buf]
    /\ Ends(t, threads[t], Success(threads[t]))
    /\ audit' = Noted(threads[t].op, Normalize(threads[t].title),
                      Success(threads[t]))
    /\ UNCHANGED <<titles, disk, last, names, words, faults, calls, embedder>>

\* create_title, lines 73-89: the duplicate check and the empty index
create_write_index(t, title) ==
    /\ threads[t].pc = "done"
    /\ calls < MaxCalls
    /\ calls' = calls + 1
    /\ LET normalized == Normalize(title)
           call == Begins(t, "create_title", title)
       IN  IF TitleExists(normalized)
           THEN /\ Ends(t, call, Return(FALSE))
                /\ disk' = disk
           ELSE IF ~Creatable(IndexPath(normalized))
           THEN /\ Ends(t, call, Raise("RuntimeError"))
                /\ disk' = disk
           ELSE /\ disk' = Write(disk, IndexPath(normalized), EmptyIndex)
                /\ Goes(t, [call EXCEPT !.pc = "create_write_chunks"])
    /\ UNCHANGED <<titles, titles_file, last, names, words, faults,
                 embedder, audit>>

\* create_title, lines 92-94: the empty chunk list
create_write_chunks(t) ==
    /\ threads[t].pc = "create_write_chunks"
    /\ disk' = Write(disk, ChunksPath(Normalize(threads[t].title)), JsonFile(<<>>))
    /\ Goes(t, [threads[t] EXCEPT !.pc = "create_put_entry"])
    /\ UNCHANGED <<titles, titles_file, last, names, words, faults, calls,
                 embedder, audit>>

\* create_title, lines 97-102: self.titles[normalized] = {...}
create_put_entry(t) ==
    /\ threads[t].pc = "create_put_entry"
    /\ LET call == threads[t]
           normalized == Normalize(call.title)
       IN  titles' = Put(titles, normalized,
                         NewEntry(strip(call.title), IndexPath(normalized),
                                  ChunksPath(normalized)))
    /\ Goes(t, [threads[t] EXCEPT !.pc = "save_dump"])
    /\ UNCHANGED <<titles_file, disk, last, names, words, faults, calls,
                 embedder, audit>>

\* delete_title, lines 217-228: the lookup and the removal of the index
delete_unlink_index(t, title) ==
    /\ threads[t].pc = "done"
    /\ calls < MaxCalls
    /\ calls' = calls + 1
    /\ LET normalized == Normalize(title)
           call == Begins(t, "delete_title", title)
       IN  IF ~TitleExists(normalized)
           THEN /\ Ends(t, call, Return(FALSE))
                /\ disk' = disk
           ELSE /\ disk' = Unlink(disk, titles[normalized].index_file)
                /\ Goes(t, [call EXCEPT !.pc = "delete_unlink_chunks"])
    /\ UNCHANGED <<titles, titles_file, last, names, words, faults,
                 embedder, audit>>

\* delete_title, lines 229-230: the removal of the chunk list
delete_unlink_chunks(t) ==
    /\ threads[t].pc = "delete_unlink_chunks"
    /\ disk' = Unlink(disk, ChunksPath(Normalize(threads[t].title)))
    /\ Goes(t, [threads[t] EXCEPT !.pc = "delete_del_entry"])
    /\ UNCHANGED <<titles, titles_file, last, names, words, faults, calls,
                 embedder, audit>>

\* delete_title, line 233: del self.titles[normalized]; a KeyError ends in
\* the except branch, which returns False
delete_del_entry(t) ==
    /\ threads[t].pc = "delete_del_entry"
    /\ LET call == threads[t]
           normalized == Normalize(call.title)
       IN  IF ~TitleExists(normalized)
           THEN /\ Ends(t, call, Return(FALSE))
                /\ titles' = titles
           ELSE /\ titles' = Remove(titles, normalized)
                /\ Goes(t, [call EXCEPT !.pc = "save_dump"])
    /\ UNCHANGED <<titles_file, disk, last, names, words, faults, calls,
                 embedder, audit>>

\* search, lines 173-184: the lookup and the load of the chunk list
search_load_chunks(t, title, query, k) ==
    /\ threads[t].pc = "done"
    /\ calls < MaxCalls
    /\ calls' = calls + 1
    /\ LET normalized == Normalize(title)
           call == [Begins(t, "search", title) EXCEPT !.query = query, !.k = k]
       IN  IF ~TitleExists(normalized)
           THEN Ends(t, call, Raise("ValueError: does not exist"))
           ELSE IF ~Exists(disk, titles[normalized].chunks_file)
           THEN Ends(t, call, Raise("FileNotFoundError"))
           ELSE IF disk[titles[normalized].chunks_file].data = <<>>
           THEN Ends(t, call, Return(<<>>))
           ELSE Goes(t, [call EXCEPT
                           !.pc = "search_load_index",
                           !.existing_chunks = disk[titles[normalized].chunks_file].data])
    /\ UNCHANGED <<titles, titles_file, disk, last, names, words, faults,
                 embedder, audit>>

\* search, lines 187-204: the load of the index, the query and the results
search_load_index(t) ==
    /\ threads[t].pc = "search_load_index"
    /\ LET call == threads[t]
           normalized == Normalize(call.title)
       IN  IF ~TitleExists(normalized)
           THEN Ends(t, call, Raise("KeyError"))
           ELSE Ends(t, call, SearchLoaded(call.existing_chunks,
                                           titles[normalized].index_file,
                                           call.query, call.k))
    /\ UNCHANGED <<titles, titles_file, disk, last, names, words, faults, calls,
                 embedder, audit>>

NextMT ==
    \E t \in Threads :
        \/ \E title \in names, chunks \in ChunkLists : add_load_chunks(t, title, chunks)
        \/ add_load_index(t)
        \/ add_write_index(t)
        \/ add_write_chunks(t)
        \/ add_update_count(t)
        \/ save_dump(t)
        \/ save_close(t)
        \/ \E title \in names : create_write_index(t, title)
        \/ create_write_chunks(t)
        \/ create_put_entry(t)
        \/ \E title \in names : delete_unlink_index(t, title)
        \/ delete_unlink_chunks(t)
        \/ delete_del_entry(t)
        \/ \E title \in names, query \in words, k \in 1..MaxK :
              search_load_chunks(t, title, query, k)
        \/ search_load_index(t)

SpecMT == InitMT /\ [][NextMT]_vars

-----------------------------------------------------------------------------
(* The two chunkers.  A text is a sequence of characters; a chunk is one   *)
(* too.                                                                     *)

\* longest text handed to a chunker
MaxText == 5
\* largest chunk size and overlap handed to a chunker
MaxSize == 3

\* the characters of a text: letters, the space and the newline
Alphabet == {"a", "b", " ", "\n"}

Texts == UNION { [1..n -> Alphabet] : n \in 0..MaxText }

\* re.sub(r'\s+', ' ', text)
RECURSIVE CollapseSpace(_)
CollapseSpace(s) ==
    IF s = <<>> THEN <<>>
    ELSE IF IsSpace(Head(s)) THEN <<" ">> \o CollapseSpace(lstrip(Tail(s)))
    ELSE <<Head(s)>> \o CollapseSpace(Tail(s))

\* re.sub(r'\n+', '\n', text)
RECURSIVE CollapseNewlines(_)
CollapseNewlines(s) ==
    IF s = <<>> THEN <<>>
    ELSE IF Head(s) = "\n" /\ Tail(s) # <<>> /\ Head(Tail(s)) = "\n"
         THEN CollapseNewlines(Tail(s))
    ELSE <<Head(s)>> \o CollapseNewlines(Tail(s))

\* str.split(): the runs of non-whitespace characters
RECURSIVE SplitWords(_, _)
SplitWords(s, cur) ==
    IF s = <<>> THEN (IF cur = <<>> THEN <<>> ELSE <<cur>>)
    ELSE IF IsSpace(Head(s))
         THEN (IF cur = <<>> THEN <<>> ELSE <<cur>>) \o SplitWords(Tail(s), <<>>)
    ELSE SplitWords(Tail(s), Append(cur, Head(s)))

split(s) == SplitWords(s, <<>>)

\* str.split('\n'): the pieces between newlines, empty ones included
RECURSIVE SplitLines(_, _)
SplitLines(s, cur) ==
    IF s = <<>> THEN <<cur>>
    ELSE IF Head(s) = "\n" THEN <<cur>> \o SplitLines(Tail(s), <<>>)
    ELSE SplitLines(Tail(s), Append(cur, Head(s)))

\* sep.join(list)
RECURSIVE Join(_, _)
Join(sep, list) ==
    IF list = <<>> THEN <<>>
    ELSE IF Len(list) = 1 THEN list[1]
    ELSE list[1] \o sep \o Join(sep, Tail(list))

\* list[i:j] for 0 <= i <= j
Slice(list, i, j) == SubSeq(list, i + 1, IF j < Len(list) THEN j ELSE Len(list))

\* mutant: the next window starts where this one ends
RECURSIVE WindowsApart(_, _, _, _)
WindowsApart(word_list, size, overlap, i) ==
    IF i >= Len(word_list) THEN <<>>
    ELSE <<Join(<<" ">>, Slice(word_list, i, i + size))>>
         \o (IF i + size >= Len(word_list) THEN <<>>
             ELSE WindowsApart(word_list, size, overlap, i + size))

\* the loop of educational_chunk_logic from position i on, for a positive
\* step: a window of size words, then the break or the next step
RECURSIVE WindowsUntilBreak(_, _, _, _)
WindowsUntilBreak(word_list, size, overlap, i) ==
    IF i >= Len(word_list) THEN <<>>
    ELSE <<Join(<<" ">>, Slice(word_list, i, i + size))>>
         \o (IF i + size >= Len(word_list) THEN <<>>
             ELSE WindowsUntilBreak(word_list, size, overlap, i + size - overlap))

\* educational_chunk_logic: range() raises on a step of 0 and is empty for a
\* negative step
EducationalChunkReturn(text, size, overlap) ==
    LET cleaned == strip(CollapseSpace(text))
        word_list == split(cleaned)
    IN  IF size - overlap = 0 THEN Raise("ValueError: range() arg 3 must not be zero")
        ELSE IF size - overlap < 0 THEN Return(<<>>)
        ELSE Return(WindowsUntilBreak(word_list, size, overlap, 0))

\* clean_text
clean_text(text) == strip(CollapseNewlines(CollapseSpace(text)))

\* mutant: only the first window of a long paragraph is taken
WindowsFirstOnly(word_list, chunk_size, overlap, i) ==
    IF i >= Len(word_list) THEN <<>>
    ELSE <<Join(<<" ">>, Slice(word_list, i, i + chunk_size))>>

\* the loop of chunk_text over a paragraph longer than chunk_size, from
\* position i on; range() is empty for a negative step
RECURSIVE Windows(_, _, _, _)
Windows(word_list, chunk_size, overlap, i) ==
    IF chunk_size - overlap < 0 \/ i >= Len(word_list) THEN <<>>
    ELSE <<Join(<<" ">>, Slice(word_list, i, i + chunk_size))>>
         \o Windows(word_list, chunk_size, overlap, i + chunk_size - overlap)

\* sum(len(s.split()) for s in current_chunk)
RECURSIVE TokenCount(_)
TokenCount(paras) ==
    IF paras = <<>> THEN 0 ELSE Len(split(Head(paras))) + TokenCount(Tail(paras))

\* current_chunk[-2:] if len(current_chunk) >= 2 else current_chunk[-1:]
LastSentences(current_chunk) ==
    IF Len(current_chunk) >= 2
    THEN SubSeq(current_chunk, Len(current_chunk) - 1, Len(current_chunk))
    ELSE current_chunk

\* the loop of chunk_text over the paragraphs, and what follows it
RECURSIVE ParagraphLoop(_, _, _, _, _, _)
ParagraphLoop(paragraphs, chunk_size, overlap, chunks, current_chunk, current_length) ==
    IF paragraphs = <<>>
    THEN Return(IF current_chunk # <<>>
                THEN Append(chunks, Join(<<"\n">>, current_chunk))
                ELSE chunks)
    ELSE LET para == Head(paragraphs)
             para_tokens == Len(split(para))
         IN  IF para_tokens > chunk_size
             THEN IF chunk_size - overlap = 0
                  THEN Raise("ValueError: range() arg 3 must not be zero")
                  ELSE ParagraphLoop(Tail(paragraphs), chunk_size, overlap,
                                     chunks \o Windows(split(para), chunk_size, overlap, 0),
                                     current_chunk, current_length)
             ELSE IF current_length + para_tokens > chunk_size /\ current_chunk # <<>>
             THEN LET kept == IF overlap > 0 THEN LastSentences(current_chunk) ELSE <<>>
                  IN  ParagraphLoop(Tail(paragraphs), chunk_size, overlap,
                                    Append(chunks, Join(<<"\n">>, current_chunk)),
                                    Append(kept, para),
                                    TokenCount(kept) + para_tokens)
             ELSE ParagraphLoop(Tail(paragraphs), chunk_size, overlap, chunks,
                                Append(current_chunk, para),
                                current_length + para_tokens)

\* [p.strip() for p in text.split('\n') if p.strip()]
Paragraphs(text) ==
    LET pieces == SplitLines(text, <<>>)
        kept == SelectSeq(pieces, NotBlank)
    IN  [i \in 1..Len(kept) |-> strip(kept[i])]

\* chunk_text
ChunkTextReturn(text, chunk_size, overlap) ==
    IF text = <<>> \/ strip(text) = <<>> THEN Return(<<>>)
    ELSE ParagraphLoop(Paragraphs(clean_text(text)), chunk_size, overlap,
                       <<>>, <<>>, 0)

\* a document, a chunk size and an overlap are picked
InitChunk ==
    /\ embedder = NoEmbedder(MiniLM)
    /\ audit = Watching({})
    /\ titles = EmptyMap
    /\ titles_file = [exists |-> FALSE, data |-> EmptyMap]
    /\ disk = EmptyMap
    /\ names = {}
    /\ words = {}
    /\ threads = [t \in Threads |-> Idle]
    /\ faults = 0
    /\ calls = 0
    /\ \E text \in Texts, size \in 1..MaxSize, overlap \in 0..MaxSize :
          last = [op |-> "document", text |-> text, size |-> size,
                  overlap |-> overlap, ret |-> Return(<<>>)]

educational_chunk_logic ==
    /\ last.op = "document"
    /\ last' = [last EXCEPT !.op = "educational_chunk_logic",
                            !.ret = EducationalChunkReturn(last.text, last.size, last.overlap)]
    /\ UNCHANGED <<titles, titles_file, disk, names, words, threads, faults, calls,
                 embedder, audit>>

chunk_text ==
    /\ last.op = "document"
    /\ last' = [last EXCEPT !.op = "chunk_text",
                            !.ret = ChunkTextReturn(last.text, last.size, last.overlap)]
    /\ UNCHANGED <<titles, titles_file, disk, names, words, threads, faults, calls,
                 embedder, audit>>

NextChunk == educational_chunk_logic \/ chunk_text

SpecChunk == InitChunk /\ [][NextChunk]_vars

-----------------------------------------------------------------------------
(* The first constructions of the Embedder.  The upload page and the chat  *)
(* page each cache an IndexManager of their own with st.cache_resource, so *)
(* the script threads of two sessions can be in IndexManager.__init__, and *)
(* in Embedder.__new__, at once; __new__ takes no lock.                    *)

\* a process in which no IndexManager has been constructed yet
InitNew ==
    /\ embedder = NoEmbedder(MiniLM)
    /\ audit = Watching({})
    /\ titles = EmptyMap
    /\ titles_file = [exists |-> FALSE, data |-> EmptyMap]
    /\ disk = EmptyMap
    /\ last = Call("start", <<>>, <<>>, <<>>, 0, Return(TRUE))
    /\ names = {}
    /\ words = {}
    /\ threads = [t \in Threads |-> Idle]
    /\ faults = 0
    /\ calls = 0

\* Embedder.__new__, line 22: "if cls._instance is None"
new_test(t) ==
    /\ threads[t].pc = "done"
    /\ calls < MaxCalls
    /\ calls' = calls + 1
    /\ Goes(t, [Begins(t, "Embedder", <<>>) EXCEPT
                   !.pc = IF embedder.instance = 0 THEN "new_assign"
                          ELSE "new_return"])
    /\ UNCHANGED <<titles, titles_file, disk, last, names, words, faults,
                   embedder, audit>>

\* line 23: cls._instance = super(Embedder, cls).__new__(cls)
new_assign(t) ==
    /\ threads[t].pc = "new_assign"
    /\ embedder' = [embedder EXCEPT !.made = @ + 1, !.instance = embedder.made + 1]
    /\ Goes(t, [threads[t] EXCEPT !.pc = "initialize_model"])
    /\ UNCHANGED <<titles, titles_file, disk, last, names, words, faults, calls,
                   audit>>

\* line 24: cls._instance._initialize_model() is called on the object the
\* class attribute names now
initialize_model(t) ==
    /\ threads[t].pc = "initialize_model"
    /\ Goes(t, [threads[t] EXCEPT !.pc = "load_model", !.self = embedder.instance])
    /\ UNCHANGED <<titles, titles_file, disk, last, names, words, faults, calls,
                   embedder, audit>>

\* line 31: self._model = SentenceTransformer(self._model_name)
load_model(t) ==
    /\ threads[t].pc = "load_model"
    /\ embedder' = [embedder EXCEPT !.loads = @ + 1,
                                    !.loaded = @ \cup {threads[t].self}]
    /\ Goes(t, [threads[t] EXCEPT !.pc = "new_return"])
    /\ UNCHANGED <<titles, titles_file, disk, last, names, words, faults, calls,
                   audit>>

\* line 25: return cls._instance
new_return(t) ==
    /\ threads[t].pc = "new_return"
    /\ Ends(t, threads[t], Return(embedder.instance))
    /\ UNCHANGED <<titles, titles_file, disk, last, names, words, faults, calls,
                   embedder, audit>>

NextNew ==
    \E t \in Threads :
        \/ new_test(t)
        \/ new_assign(t)
        \/ initialize_model(t)
        \/ load_model(t)
        \/ new_return(t)

SpecNew == InitNew /\ [][NextNew]_vars

-----------------------------------------------------------------------------
(* The embedder as a function of the list it is handed *)

\* most texts in one list handed to embed_texts
MaxBatch == 3

\* the texts of those lists: words, the empty string, a blank, a word with
\* whitespace around it
BatchTexts == { <<"x">>, <<"y">>, <<>>, <<" ">>, <<" ", "x", "\n">> }

InitEmbed ==
    /\ embedder = OneEmbedder(MiniLM)
    /\ audit = Watching({})
    /\ titles = EmptyMap
    /\ titles_file = [exists |-> FALSE, data |-> EmptyMap]
    /\ disk = EmptyMap
    /\ names = {}
    /\ words = {}
    /\ threads = [t \in Threads |-> Idle]
    /\ faults = 0
    /\ calls = 0
    /\ \E texts \in UNION { [1..n -> BatchTexts] : n \in 0..MaxBatch } :
          last = [op |-> "texts", texts |-> texts, batches |-> <<>>,
                  ret |-> Return(<<>>)]

\* Embedder.embed_texts(texts): what it gives back and what it handed to the
\* model
call_embed_texts ==
    /\ last.op = "texts"
    /\ last' = [last EXCEPT !.op = "embed_texts",
                            !.batches = EncodeBatches(last.texts),
                            !.ret = Return(embed_texts(last.texts))]
    /\ UNCHANGED <<titles, titles_file, disk, names, words, threads, faults, calls,
                   embedder, audit>>

NextEmbed == call_embed_texts

SpecEmbed == InitEmbed /\ [][NextEmbed]_vars

-----------------------------------------------------------------------------
(* What the claims speak of *)

\* the key a call's title stands for
KeyOf(call) == Normalize(call.title)

\* both persisted files of a registered key are there
FilesPresent(key) ==
    /\ Exists(disk, titles[key].index_file)
    /\ Exists(disk, titles[key].chunks_file)

\* the persisted index and the persisted chunk list of a registered key
Vectors(key) == disk[titles[key].index_file].vecs

Chunks(key) == disk[titles[key].chunks_file].data

Min(a, b) == IF a < b THEN a ELSE b

\* C1: for every registered collection the persisted index holds as many
\* vectors as the persisted chunk file holds strings.
C1_VectorsMatchChunks ==
    \A key \in DOMAIN titles :
        FilesPresent(key) => Len(Vectors(key)) = Len(Chunks(key))

\* C2: in every persisted state the i-th vector of a collection's index is the
\* embedding of the i-th string of its chunk list.
C2_PositionalPairing ==
    \A key \in DOMAIN titles :
        FilesPresent(key) =>
            \A i \in 1..Len(Chunks(key)) :
                /\ i <= Len(Vectors(key))
                /\ Vectors(key)[i] = Encode(Chunks(key)[i])

\* what the store holds for key B: its registry entry, its two files and
\* what every search on it gives back
ViewOf(B) ==
    [entry |-> titles[B],
     index |-> IF Exists(disk, titles[B].index_file)
               THEN <<disk[titles[B].index_file]>> ELSE <<>>,
     chunks |-> IF Exists(disk, titles[B].chunks_file)
                THEN <<disk[titles[B].chunks_file]>> ELSE <<>>,
     found |-> [t \in {n \in names : Normalize(n) = B}, q \in words, k \in 1..MaxK
                    |-> SearchReturn(t, q, k)]]

\* C3: add_documents on key A leaves chunk_count, the persisted index, the
\* persisted chunk list and every search result of any other key B unchanged.
C3_Isolation ==
    [][last'.op = "add_documents" =>
          \A B \in DOMAIN titles \ {KeyOf(last')} :
              B \in DOMAIN titles' /\ ViewOf(B)' = ViewOf(B)]_vars

\* C4: create_title with a name whose trimmed, lower-cased key is registered
\* returns False and changes nothing; every entry sits under the trimmed,
\* lower-cased form of its name, so no two entries share a key.
C4_DuplicateKeyRejected ==
    /\ [][(last'.op = "create_title" /\ KeyOf(last') \in DOMAIN titles) =>
              /\ last'.ret = Return(FALSE)
              /\ titles' = titles
              /\ titles_file' = titles_file
              /\ disk' = disk]_vars
    /\ [](\A key \in DOMAIN titles : key = lower(strip(titles[key].display_name)))

\* a second name of a collection that already holds chunks was just refused
C4_Witness ==
    /\ last.op = "create_title"
    /\ last.ret = Return(FALSE)
    /\ KeyOf(last) \in DOMAIN titles
    /\ strip(last.title) # titles[KeyOf(last)].display_name
    /\ titles[KeyOf(last)].chunk_count > 0

\* C5: after a create_title or add_documents call that returns, chunk_count of
\* its key is the length of the persisted chunk list (0 right after create),
\* and an add_documents returning n grew that list by exactly n.
C5_ChunkCountMatches ==
    [][(last'.op \in {"create_title", "add_documents"} /\ last'.ret.kind = "return") =>
          /\ KeyOf(last') \in DOMAIN titles'
          /\ Exists(disk', titles'[KeyOf(last')].chunks_file)
          /\ titles'[KeyOf(last')].chunk_count =
                Len(disk'[titles'[KeyOf(last')].chunks_file].data)
          /\ (last'.op = "create_title" /\ last'.ret.val) =>
                titles'[KeyOf(last')].chunk_count = 0
          /\ last'.op = "add_documents" =>
                /\ Exists(disk, titles[KeyOf(last')].chunks_file)
                /\ Len(disk'[titles'[KeyOf(last')].chunks_file].data) =
                      Len(disk[titles[KeyOf(last')].chunks_file].data) + last'.ret.val]_vars

\* C6: add_documents, search, delete_title and get_title_info on a key that
\* is not registered change nothing; the first two raise the not-found
\* error, delete_title returns False and get_title_info returns None.
C6_UnknownKeyRejected ==
    [][(/\ last'.op \in {"add_documents", "search", "delete_title", "get_title_info"}
        /\ KeyOf(last') \notin DOMAIN titles) =>
          /\ titles' = titles
          /\ titles_file' = titles_file
          /\ disk' = disk
          /\ last'.op \in {"add_documents", "search"} =>
                last'.ret = Raise("ValueError: does not exist")
          /\ last'.op = "delete_title" => last'.ret = Return(FALSE)
          /\ last'.op = "get_title_info" => last'.ret = Return(<<>>)]_vars

\* an add_documents with chunks was just refused while another collection exists
C6_Witness ==
    /\ last.op = "add_documents"
    /\ last.chunks # <<>>
    /\ KeyOf(last) \notin DOMAIN titles
    /\ last.ret = Raise("ValueError: does not exist")
    /\ DOMAIN titles # {}

\* C7: search with a non-blank query on a registered collection does not
\* raise, whatever k, and returns at most min(k, chunk_count) results (none
\* for a collection that has received no chunks).
C7_SearchBounded ==
    (/\ last.op = "search"
     /\ KeyOf(last) \in DOMAIN titles
     /\ ~QueryRejected(last.query)) =>
        /\ last.ret.kind = "return"
        /\ Len(last.ret.val) <= Min(last.k, titles[KeyOf(last)].chunk_count)

\* C8: right after create_title(t) returned True, an add_documents(t, chunks)
\* whose first chunk is non-blank (and whose other chunks embed differently)
\* leaves a collection in which search(t, chunks[0], 1) returns chunks[0] alone.
C8_SelfRetrieval ==
    [][\A t \in names, c \in words :
          (/\ last.op = "create_title"
           /\ last.ret = Return(TRUE)
           /\ last'.op = "add_documents"
           /\ last'.title = t
           /\ KeyOf(last') = KeyOf(last)
           /\ last'.ret.kind = "return"
           /\ last'.chunks # <<>>
           /\ last'.chunks[1] = c
           /\ NotBlank(c)
           /\ \A i \in 2..Len(last'.chunks) : Encode(last'.chunks[i]) # Encode(c)) =>
              /\ SearchReturn(t, c, 1)'.kind = "return"
              /\ Len(SearchReturn(t, c, 1)'.val) = 1
              /\ SearchReturn(t, c, 1)'.val[1].chunk = c]_vars

\* a search for the first of two chunks with k = 1 just returned that chunk
C8_Witness ==
    /\ last.op = "search"
    /\ last.k = 1
    /\ KeyOf(last) \in DOMAIN titles
    /\ FilesPresent(KeyOf(last))
    /\ Len(Chunks(KeyOf(last))) = 2
    /\ Chunks(KeyOf(last))[1] = last.query
    /\ titles[KeyOf(last)].chunk_count = 2
    /\ last.ret = Return(<<[chunk |-> last.query, score |-> 100]>>)

C10_NoDanglingEntry ==
    [][last'.op = "delete_title" =>
          \A key \in DOMAIN titles' :
              key \in DOMAIN titles =>
                  /\ Exists(disk, titles[key].index_file) =>
                        Exists(disk', titles'[key].index_file)
                  /\ Exists(disk, titles[key].chunks_file) =>
                        Exists(disk', titles'[key].chunks_file)]_vars

\* C11: when create_title or delete_title has returned True, or add_documents
\* has returned the number of chunks it added, the registry file exists and
\* holds the in-memory titles mapping.
C11_RegistryWrittenOnSuccess ==
    (\/ last.op \in {"create_title", "delete_title"} /\ last.ret = Return(TRUE)
     \/ /\ last.op = "add_documents"
        /\ last.ret.kind = "return"
        /\ last.ret.val > 0) =>
        titles_file = [exists |-> TRUE, data |-> titles]

\* C12: a new IndexManager on the same storage root holds the mapping the
\* previous instance held, and the empty mapping when there is no registry file.
C12_RestartDurable ==
    [][last'.op = "init" =>
          /\ titles' = titles
          /\ ~titles_file.exists => titles' = EmptyMap]_vars

\* thread t's call has returned, and it wrote the registry before it did
Succeeded(t) ==
    /\ threads[t].pc = "done"
    /\ \/ /\ threads[t].op \in {"create_title", "delete_title"}
          /\ threads[t].ret = Return(TRUE)
       \/ /\ threads[t].op = "add_documents"
          /\ threads[t].ret.kind = "return"
          /\ threads[t].ret.val > 0

\* the calls of s and t ran at the same time
Concurrent(s, t) ==
    threads[s].id \in threads[t].during \/ threads[t].id \in threads[s].during

\* C13: when two add_documents calls on one key that ran at the same time have
\* both returned success, the chunk file holds the chunks one of them found,
\* then the chunks of both, the index holds their vectors and chunk_count is
\* the length of the list.
C13_NoLostUpdate ==
    \A s, t \in Threads :
        (/\ s # t
         /\ Succeeded(s) /\ threads[s].op = "add_documents"
         /\ Succeeded(t) /\ threads[t].op = "add_documents"
         /\ KeyOf(threads[s]) = KeyOf(threads[t])
         /\ Concurrent(s, t)) =>
            LET key == KeyOf(threads[s])
            IN  /\ key \in DOMAIN titles
                /\ FilesPresent(key)
                /\ \E f, g \in {s, t} :
                      /\ f # g
                      /\ Chunks(key) = threads[f].existing_chunks
                                           \o threads[f].chunks \o threads[g].chunks
                /\ Vectors(key) = embed_texts(Chunks(key))
                /\ titles[key].chunk_count = Len(Chunks(key))

\* thread t has made the first and not yet the last of the file writes (or
\* removals) of an add_documents or delete_title on key
InWriteSpan(t, key) ==
    /\ threads[t].pc \in {"add_write_chunks", "delete_unlink_chunks"}
    /\ KeyOf(threads[t]) = key

\* thread s reads a file of a registered key in this step of its search
SearchReads(s) ==
    /\ threads'[s].op = "search"
    /\ \/ threads[s].pc = "done" /\ threads'[s].id # threads[s].id
       \/ threads[s].pc = "search_load_index" /\ threads'[s].pc = "done"
    /\ KeyOf(threads'[s]) \in DOMAIN titles

\* C14: no search reads the chunk file or the index file of a key while
\* another thread is between the first and the last file write of an
\* add_documents or delete_title on that key.
C14_NoReadInWriteSpan ==
    [][\A s, t \in Threads :
          (s # t /\ SearchReads(s)) => ~InWriteSpan(t, KeyOf(threads'[s]))]_vars

\* C15: when an add_documents on one key and an add_documents or create_title
\* on another key that ran at the same time have both returned success, the
\* registry file holds the entry of either key as the mapping in memory has it.
C15_BothUpdatesPersisted ==
    \A s, t \in Threads :
        (/\ s # t
         /\ Succeeded(s) /\ threads[s].op = "add_documents"
         /\ Succeeded(t) /\ threads[t].op \in {"add_documents", "create_title"}
         /\ KeyOf(threads[s]) # KeyOf(threads[t])
         /\ Concurrent(s, t)) =>
            \A key \in {KeyOf(threads[s]), KeyOf(threads[t])} :
                key \in DOMAIN titles =>
                    /\ titles_file.exists
                    /\ key \in DOMAIN titles_file.data
                    /\ titles_file.data[key] = titles[key]

\* the result dicts of the selected titles whose search returns, in the
\* order of the selection
Candidates == Gather(last.title, last.query, last.k).all_context

\* how often item occurs among the positions ps of list
Count(list, ps, item) == Cardinality({ i \in ps : list[i] = item })

\* C16: the ranked list of a retrieval holds min(k, n) of the n results of all
\* selected titles together, each tagged with a selected title whose search
\* returned it; it is in descending score order, and no result left out
\* scores higher than one that is in it.
C16_GlobalTopK ==
    last.op = "retrieve" =>
        LET top == last.ret.val.top_context
            all == Candidates
        IN  /\ Len(top) = Min(last.k, Len(all))
            /\ \A i \in 1..Len(top) :
                  \E j \in 1..Len(last.title) :
                      /\ top[i].title = last.title[j]
                      /\ SearchReturn(last.title[j], last.query, last.k).kind = "return"
                      /\ \E r \in 1..Len(SearchReturn(last.title[j], last.query, last.k).val) :
                            LET hit == SearchReturn(last.title[j], last.query, last.k).val[r]
                            IN  hit.chunk = top[i].chunk /\ hit.score = top[i].score
            /\ \A i, j \in 1..Len(top) : i < j => top[i].score >= top[j].score
            /\ \E kept \in SUBSET (1..Len(all)) :
                  /\ \A i \in 1..Len(top) :
                        Count(top, 1..Len(top), top[i]) = Count(all, kept, top[i])
                  /\ Cardinality(kept) = Len(top)
                  /\ \A p \in (1..Len(all)) \ kept, i \in 1..Len(top) :
                        all[p].score <= top[i].score

\* a retrieval over two titles with k = 2 took the best result of each title
\* and left a lower-scoring result of either title out
C16_Witness ==
    /\ last.op = "retrieve"
    /\ Len(last.title) = 2
    /\ last.k = 2
    /\ Len(Candidates) = 4
    /\ Len(last.ret.val.top_context) = 2
    /\ last.ret.val.top_context[1].title # last.ret.val.top_context[2].title
    /\ last.ret.val.top_context[2].score > Candidates[2].score

\* the sum of a list of numbers
RECURSIVE Total(_)
Total(numbers) == IF numbers = <<>> THEN 0 ELSE Head(numbers) + Total(Tail(numbers))

\* C17: a retrieval never raises; its warnings name exactly the selected
\* titles whose search raises, and the results of every other selected title
\* are merged: the ranked list holds min(k, n) of their n results, and of no
\* title more are missing than the cut to k leaves out in all.
C17_FailureIsWarning ==
    last.op = "retrieve" =>
        LET failed == { j \in 1..Len(last.title) :
                          SearchReturn(last.title[j], last.query, last.k).kind = "raise" }
            found == [j \in 1..Len(last.title) |->
                        IF j \in failed THEN 0
                        ELSE Len(SearchReturn(last.title[j], last.query, last.k).val)]
        IN  /\ last.ret.kind = "return"
            /\ { last.ret.val.warnings[w] : w \in 1..Len(last.ret.val.warnings) }
                  = { last.title[j] : j \in failed }
            /\ Len(last.ret.val.warnings) = Cardinality(failed)
            /\ Len(last.ret.val.top_context) = Min(last.k, Total(found))
            /\ \A j \in (1..Len(last.title)) \ failed :
                  Cardinality({ i \in 1..Len(last.ret.val.top_context) :
                                  last.ret.val.top_context[i].title = last.title[j] })
                      >= found[j] - (Total(found) - Len(last.ret.val.top_context))

\* a retrieval whose first title could not be searched warned about it and
\* ranked the results of the second
C17_Witness ==
    /\ last.op = "retrieve"
    /\ Len(last.title) = 2
    /\ SearchReturn(last.title[1], last.query, last.k).kind = "raise"
    /\ last.ret.val.warnings = <<last.title[1]>>
    /\ Len(last.ret.val.top_context) > 0
    /\ last.ret.val.top_context[1].title = last.title[2]

\* the words of the text the chunker was handed
InputWords == split(last.text)

\* the chunks laid end to end, each after the first without its first
\* overlap words
RECURSIVE Unwound(_, _, _)
Unwound(chunks, overlap, first) ==
    IF chunks = <<>> THEN <<>>
    ELSE LET chunk_words == split(Head(chunks))
         IN  (IF first THEN chunk_words
              ELSE SubSeq(chunk_words, overlap + 1, Len(chunk_words)))
             \o Unwound(Tail(chunks), overlap, FALSE)

\* C18: for 0 <= overlap < size the word-window chunker returns no chunk for
\* a text without words and otherwise at least one; every chunk has 1 to
\* size words; the last overlap words of a chunk are the first overlap words
\* of the next; and the chunks, laid end to end without the repeated
\* words, are the words of the text in their order.
C18_WordWindows ==
    (last.op = "educational_chunk_logic" /\ last.overlap < last.size) =>
        /\ last.ret.kind = "return"
        /\ InputWords = <<>> => last.ret.val = <<>>
        /\ InputWords # <<>> =>
              /\ Len(last.ret.val) >= 1
              /\ \A c \in 1..Len(last.ret.val) :
                    Len(split(last.ret.val[c])) \in 1..last.size
              /\ \A c \in 1..(Len(last.ret.val) - 1) :
                    LET this == split(last.ret.val[c])
                        next == split(last.ret.val[c + 1])
                    IN  /\ Len(this) >= last.overlap
                        /\ Len(next) >= last.overlap
                        /\ SubSeq(this, Len(this) - last.overlap + 1, Len(this))
                              = SubSeq(next, 1, last.overlap)
              /\ Unwound(last.ret.val, last.overlap, TRUE) = InputWords

\* three different words were cut into two chunks of two words that share
\* the middle one
C18_Witness ==
    /\ last.op = "educational_chunk_logic"
    /\ last.size = 2
    /\ last.overlap = 1
    /\ Len(InputWords) = 3
    /\ InputWords[2] # InputWords[3]
    /\ last.ret.kind = "return"
    /\ Len(last.ret.val) = 2
    /\ split(last.ret.val[2]) = SubSeq(InputWords, 2, 3)

\* C19: a chunker called with size - overlap <= 0 raises.
C19_NonPositiveStepRejected ==
    (/\ last.op \in {"educational_chunk_logic", "chunk_text"}
     /\ last.size - last.overlap <= 0) =>
        last.ret.kind = "raise"

\* C20: for a text with at least one word and 0 <= overlap < size either
\* chunker returns at least one chunk, and every word position of the text
\* lies in a chunk that is a run of the text's words.
C20_EveryWordCovered ==
    (/\ last.op \in {"educational_chunk_logic", "chunk_text"}
     /\ last.overlap < last.size
     /\ InputWords # <<>>) =>
        /\ last.ret.kind = "return"
        /\ Len(last.ret.val) >= 1
        /\ \A p \in 1..Len(InputWords) :
              \E c \in 1..Len(last.ret.val), start \in 1..p :
                  LET chunk_words == split(last.ret.val[c])
                  IN  /\ p < start + Len(chunk_words)
                      /\ start + Len(chunk_words) - 1 <= Len(InputWords)
                      /\ chunk_words
                            = SubSeq(InputWords, start, start + Len(chunk_words) - 1)

\* chunk_text cut a paragraph of three words, given with a newline in it,
\* into windows of two words that cover all three
C20_Witness ==
    /\ last.op = "chunk_text"
    /\ last.size = 2
    /\ last.overlap = 1
    /\ Len(InputWords) = 3
    /\ \E i \in 1..Len(last.text) : last.text[i] = "\n"
    /\ last.ret.kind = "return"
    /\ Len(last.ret.val) >= 2
    /\ split(last.ret.val[1]) = SubSeq(InputWords, 1, 2)
    /\ split(last.ret.val[2]) = SubSeq(InputWords, 2, 3)

\* the persisted index of a registered key was made for another dimension
\* than that of this process's embedder
Mismatch(key) ==
    /\ key \in DOMAIN titles
    /\ Exists(disk, titles[key].index_file)
    /\ disk[titles[key].index_file].d # embedding_dim

C22_ZeroIsNoOp ==
    [][(/\ last'.op = "add_documents"
        /\ KeyOf(last') \in DOMAIN titles
        /\ last'.ret.kind = "return"
        /\ last'.ret.val = 0) =>
          /\ titles' = titles
          /\ titles_file' = titles_file
          /\ disk' = disk]_vars

\* a list of blank chunks was handed to a collection that holds chunks, and
\* 0 came back
C22_Witness ==
    /\ last.op = "add_documents"
    /\ last.chunks # <<>>
    /\ last.ret = Return(0)
    /\ KeyOf(last) \in DOMAIN titles
    /\ FilesPresent(KeyOf(last))
    /\ Len(Chunks(KeyOf(last))) > 0

\* C23: when a step of add_documents fails, the persisted index and the
\* persisted chunk list of its collection, of equal length before the call,
\* are of equal length after it.
C23_AddAllOrNothing ==
    [][\A key \in DOMAIN titles :
          (/\ last'.op = "add_documents"
           /\ faults' # faults
           /\ key = KeyOf(last')
           /\ FilesPresent(key)
           /\ Len(Vectors(key)) = Len(Chunks(key))) =>
             /\ key \in DOMAIN titles'
             /\ FilesPresent(key)'
             /\ Len(Vectors(key)') = Len(Chunks(key)')]_vars

\* an I/O step of a create_title, add_documents or delete_title call failed
\* and the call was given up: the first two raise, delete_title returns False
GaveUp(call) ==
    \/ call.op \in {"create_title", "add_documents"} /\ call.ret.kind = "raise"
    \/ call.op = "delete_title" /\ call.ret = Return(FALSE)

\* C24: a create_title, add_documents or delete_title call that a failed
\* write or removal ends leaves the registry, in memory and on disk, as it
\* was; a call that changes the registry has by then written both files of
\* its key (create, add) or removed both (delete).
C24_RegistryLast ==
    [][last'.op \in {"create_title", "add_documents", "delete_title"} =>
          /\ (faults' # faults /\ GaveUp(last')) =>
                titles' = titles /\ titles_file' = titles_file
          /\ (titles' # titles \/ titles_file' # titles_file) =>
                /\ last'.ret.kind = "return"
                /\ last'.op = "create_title" =>
                      /\ disk'[IndexPath(KeyOf(last'))] = EmptyIndex
                      /\ disk'[ChunksPath(KeyOf(last'))] = JsonFile(<<>>)
                /\ last'.op = "add_documents" =>
                      /\ Len(disk'[titles[KeyOf(last')].index_file].vecs)
                            > Len(disk[titles[KeyOf(last')].index_file].vecs)
                      /\ disk'[titles[KeyOf(last')].chunks_file].data
                            = disk[titles[KeyOf(last')].chunks_file].data \o last'.chunks
                /\ last'.op = "delete_title" =>
                      /\ ~Exists(disk', titles[KeyOf(last')].index_file)
                      /\ ~Exists(disk', titles[KeyOf(last')].chunks_file)]_vars

\* the write of the chunk list failed in an add_documents whose index had
\* been written: the call raised, the index on disk grew, the registry did not
C24_Witness ==
    /\ last.op = "add_documents"
    /\ last.ret = Raise("OSError")
    /\ faults = 1
    /\ KeyOf(last) \in DOMAIN titles
    /\ FilesPresent(KeyOf(last))
    /\ Len(Vectors(KeyOf(last))) > titles[KeyOf(last)].chunk_count
    /\ titles_file.exists
    /\ titles_file.data = titles

\* the (distance, label) pairs the index reports to the search that was made
\* last
Reported ==
    FaissSearch(Vectors(KeyOf(last)), embed_query(last.query),
                Min(last.k, Len(Chunks(KeyOf(last)))), {})

\* those of them whose label is a position of the chunk list
ReportedInBounds ==
    LET InBounds(hit) == hit.idx \in 0..(Len(Chunks(KeyOf(last))) - 1)
    IN  SelectSeq(Reported, InBounds)

\* C25: a search that reaches the index returns, and its results are, in
\* order, the chunks at the reported positions that lie in
\* 0..len(chunks)-1, each with the score reported for it; every other
\* reported position is skipped.
C25_OnlyPositionsInBounds ==
    (/\ last.op = "search"
     /\ KeyOf(last) \in DOMAIN titles
     /\ FilesPresent(KeyOf(last))
     /\ Chunks(KeyOf(last)) # <<>>
     /\ ~QueryRejected(last.query)) =>
        /\ last.ret.kind = "return"
        /\ Len(last.ret.val) = Len(ReportedInBounds)
        /\ \A i \in 1..Len(last.ret.val) :
              /\ last.ret.val[i].chunk = Chunks(KeyOf(last))[ReportedInBounds[i].idx + 1]
              /\ last.ret.val[i].score = ReportedInBounds[i].dist

\* C26: a retrieval that returns results has embedded the query exactly
\* once, however many collections were selected.
C26_QueryEmbeddedOnce ==
    (last.op = "retrieve" /\ last.ret.val.top_context # <<>>) =>
        last.ret.val.embeds = 1

\* a text that is empty or all whitespace
Blank(text) == \A i \in 1..Len(text) : IsSpace(text[i])

\* the positions of the texts handed to embed_texts that are not blank
Remaining == { p \in 1..Len(last.texts) : ~Blank(last.texts[p]) }

IsPrefix(short, long) ==
    Len(short) <= Len(long) /\ SubSeq(long, 1, Len(short)) = short

\* C28: across every add_documents call the persisted chunk list of its
\* collection as it was is a prefix of what it is afterwards, and
\* chunk_count does not go down.
C28_AppendOnly ==
    [][\A key \in DOMAIN titles :
          (last'.op = "add_documents" /\ key = KeyOf(last')) =>
             /\ key \in DOMAIN titles'
             /\ titles'[key].chunk_count >= titles[key].chunk_count
             /\ Exists(disk, titles[key].chunks_file) =>
                   /\ Exists(disk', titles'[key].chunks_file)
                   /\ IsPrefix(Chunks(key), Chunks(key)')]_vars

\* C29: a create_title that returns True for a key that a delete_title
\* returning True had removed leaves a collection with chunk_count 0, an
\* empty index and an empty chunk list, on which every search returns no
\* result; and the chunk list of such a key changes from then on only by an
\* add_documents appending the chunks it was handed, or by being emptied or
\* removed, so that nothing of the deleted collection comes back.
C29_RecreatedStartsEmpty ==
    [][\A key \in audit.deleted :
          /\ (/\ last'.op = "create_title"
              /\ key = KeyOf(last')
              /\ last'.ret = Return(TRUE)) =>
                /\ key \in DOMAIN titles'
                /\ titles'[key].chunk_count = 0
                /\ FilesPresent(key)'
                /\ Vectors(key)' = <<>>
                /\ Chunks(key)' = <<>>
                /\ \A t \in names, q \in words, k \in 1..MaxK :
                      Normalize(t) = key => SearchReturn(t, q, k)' = Return(<<>>)
          /\ (/\ key \in DOMAIN titles
              /\ key \in DOMAIN titles'
              /\ Exists(disk, titles[key].chunks_file)
              /\ Exists(disk', titles'[key].chunks_file)) =>
                \/ Chunks(key)' = Chunks(key)
                \/ Chunks(key)' = <<>>
                \/ /\ last'.op = "add_documents"
                   /\ Chunks(key)' = Chunks(key) \o last'.chunks]_vars

\* a collection that held chunks was deleted and its name has just been
\* created again
C29_Witness ==
    /\ last.op = "create_title"
    /\ last.ret = Return(TRUE)
    /\ KeyOf(last) \in audit.held
    /\ KeyOf(last) \in DOMAIN titles

\* C30: the model is loaded at most once in a process, and all
\* constructions of Embedder that have returned gave the same object.
C30_ModelLoadedOnce ==
    /\ embedder.loads <= 1
    /\ \A s, t \in Threads :
          (/\ threads[s].op = "Embedder" /\ threads[s].pc = "done"
           /\ threads[t].op = "Embedder" /\ threads[t].pc = "done") =>
              threads[s].ret = threads[t].ret

====
